---- MODULE Spec2Model ----
(***************************************************************************)
(* Model of the Xor8 filter of src/lib.rs: construction (build_keys with   *)
(* its reseed-and-retry peeling loop), fingerprint assignment, query       *)
(* (contains_key), the binary codec (to_bytes / from_bytes) and the        *)
(* CborXor8 conversions.                                                   *)
(*                                                                         *)
(* Machine words keep their width.  A u64 is a little-endian tuple of 8    *)
(* bytes, a u32 one of 4 bytes (TLC integers are 32-bit signed, so words   *)
(* are never held as one integer); all arithmetic is done byte-wise and    *)
(* wraps as the Rust operators used in the source do.                      *)
(***************************************************************************)
EXTENDS Integers, Sequences, FiniteSets, TLC

(***************************************************************************)
(* Word arithmetic                                                         *)
(***************************************************************************)

\* 2^i for 0 <= i <= 8
Pow2(i) == CASE i = 0 -> 1 [] i = 1 -> 2 [] i = 2 -> 4 [] i = 3 -> 8
             [] i = 4 -> 16 [] i = 5 -> 32 [] i = 6 -> 64 [] i = 7 -> 128
             [] OTHER -> 256

\* bit i of a
Bit(a, i) == (a \div Pow2(i)) % 2

\* bitwise xor of two nibbles, tabulated
XorNib == [a \in 0..15 |-> [b \in 0..15 |->
             ((Bit(a, 0) + Bit(b, 0)) % 2)
           + 2 * ((Bit(a, 1) + Bit(b, 1)) % 2)
           + 4 * ((Bit(a, 2) + Bit(b, 2)) % 2)
           + 8 * ((Bit(a, 3) + Bit(b, 3)) % 2)]]

\* the ^ operator on u8
XorByte(a, b) == 16 * XorNib[a \div 16][b \div 16] + XorNib[a % 16][b % 16]

\* the function f on 1..n as a tuple, its elements evaluated once
Tuple(f) == f \o <<>>

\* the ^ operator on words of equal width
XorW(x, y) == Tuple([i \in 1..Len(x) |-> XorByte(x[i], y[i])])

\* the all-zero word of n bytes
ZeroW(n) == Tuple([i \in 1..n |-> 0])

\* a small natural number as a word of n bytes
FromInt(v, n) == Tuple([i \in 1..n |->
                    CASE i = 1 -> v % 256
                      [] i = 2 -> (v \div 256) % 256
                      [] i = 3 -> (v \div 65536) % 256
                      [] i = 4 -> (v \div 16777216) % 256
                      [] OTHER -> 0])

\* TRUE iff the word's value is below 2^24 (it then fits a model integer)
IsSmall(w) == \A i \in 4..Len(w) : w[i] = 0

\* the value of a word known to be small
ToInt(w) == w[1] + 256 * w[2] + 65536 * w[3]

\* a word written most significant byte first (hex reading order)
BE(s) == Tuple([i \in 1..Len(s) |-> s[Len(s) + 1 - i]])

RECURSIVE AddC(_, _, _, _)
AddC(x, y, i, c) ==
  IF i > Len(x) THEN <<>>
  ELSE LET s == x[i] + y[i] + c
       IN  <<s % 256>> \o AddC(x, y, i + 1, s \div 256)

\* wrapping_add on words of equal width
AddW(x, y) == AddC(x, y, 1, 0)

\* TRUE iff x + y does not fit the width of x and y
RECURSIVE CarryOut(_, _, _, _)
CarryOut(x, y, i, c) ==
  IF i > Len(x) THEN c
  ELSE CarryOut(x, y, i + 1, (x[i] + y[i] + c) \div 256)

AddOverflows(x, y) == CarryOut(x, y, 1, 0) = 1

\* column k of the long multiplication of two 8-byte words: the sum of
\* the byte products x[i] * y[j] with i + j = k + 1
ColSum(x, y, k) ==
  CASE k = 1 -> x[1] * y[1]
    [] k = 2 -> x[1] * y[2] + x[2] * y[1]
    [] k = 3 -> x[1] * y[3] + x[2] * y[2] + x[3] * y[1]
    [] k = 4 -> x[1] * y[4] + x[2] * y[3] + x[3] * y[2] + x[4] * y[1]
    [] k = 5 -> x[1] * y[5] + x[2] * y[4] + x[3] * y[3] + x[4] * y[2]
                + x[5] * y[1]
    [] k = 6 -> x[1] * y[6] + x[2] * y[5] + x[3] * y[4] + x[4] * y[3]
                + x[5] * y[2] + x[6] * y[1]
    [] k = 7 -> x[1] * y[7] + x[2] * y[6] + x[3] * y[5] + x[4] * y[4]
                + x[5] * y[3] + x[6] * y[2] + x[7] * y[1]
    [] OTHER -> x[1] * y[8] + x[2] * y[7] + x[3] * y[6] + x[4] * y[5]
                + x[5] * y[4] + x[6] * y[3] + x[7] * y[2] + x[8] * y[1]

\* the bytes k.. of the product, with the carry c into column k
RECURSIVE MulC(_, _, _, _)
MulC(x, y, k, c) ==
  IF k > 8 THEN <<>>
  ELSE <<(c + ColSum(x, y, k)) % 256>>
         \o MulC(x, y, k + 1, (c + ColSum(x, y, k)) \div 256)

\* wrapping_mul on u64
MulW(x, y) == MulC(x, y, 1, 0)

\* x >> s on a word (logical shift right)
ShrW(x, s) ==
  LET n == Len(x)
      q == s \div 8
      r == s % 8
      B(j) == IF j <= n THEN x[j] ELSE 0
  IN  Tuple([i \in 1..n |->
         (B(i + q) \div Pow2(r)) + (B(i + q + 1) % Pow2(r)) * Pow2(8 - r)])

\* x.rotate_left(s) on a word
RotlW(x, s) ==
  LET n == Len(x)
      t == 8 * n - s
      q == t \div 8
      r == t % 8
      B(j) == x[((j - 1) % n) + 1]
  IN  Tuple([i \in 1..n |->
         (B(i + q) \div Pow2(r)) + (B(i + q + 1) % Pow2(r)) * Pow2(8 - r)])

\* `as u32` on a u64
LowU32(x) == SubSeq(x, 1, 4)

\* `as u64` on a u32
WidenU64(x) == x \o <<0, 0, 0, 0>>

(***************************************************************************)
(* Hash derivation (src/lib.rs lines 24-53)                                *)
(***************************************************************************)

Murmur1 == BE(<<\hff, \h51, \haf, \hd7, \hed, \h55, \h8c, \hcd>>)
Murmur2 == BE(<<\hc4, \hce, \hb9, \hfe, \h1a, \h85, \hec, \h53>>)
Golden  == BE(<<\h9E, \h37, \h79, \hB9, \h7F, \h4A, \h7C, \h15>>)
Split1  == BE(<<\hBF, \h58, \h47, \h6D, \h1C, \hE4, \hE5, \hB9>>)
Split2  == BE(<<\h94, \hD0, \h49, \hBB, \h13, \h31, \h11, \hEB>>)

\* h ^ (h >> s)
XorShift(h, s) == XorW(h, ShrW(h, s))

murmur64(h) ==
  XorShift(MulW(XorShift(MulW(XorShift(h, 33), Murmur1), 33), Murmur2), 33)

\* the counter after the call: *seed = (*seed).wrapping_add(0x9E37...)
splitmix64_state(s) == AddW(s, Golden)

\* the value returned by splitmix64(&mut s)
splitmix64(s) ==
  XorShift(MulW(XorShift(MulW(XorShift(splitmix64_state(s), 30), Split1),
                         27), Split2), 31)

mixsplit(key, sd) == murmur64(AddW(key, sd))

\* faulty variant of reduce: the product is shifted by 31 bits
reduce31(hash, n) == LowU32(ShrW(MulW(WidenU64(hash), WidenU64(n)), 31))

\* (((hash as u64) * (n as u64)) >> 32) as u32
reduce(hash, n) == LowU32(ShrW(MulW(WidenU64(hash), WidenU64(n)), 32))

\* hash ^ (hash >> 32), a u64
fingerprint(hash) == XorW(hash, ShrW(hash, 32))

\* `as u8` on a word
AsU8(w) == w[1]

geth0(hash, bl) == reduce(LowU32(hash), bl)
geth1(hash, bl) == reduce(LowU32(RotlW(hash, 21)), bl)
geth2(hash, bl) == reduce(LowU32(RotlW(hash, 42)), bl)

\* the Hashes of the master hash h
Hashes(h, bl) ==
  [h  |-> h,
   h0 |-> reduce(LowU32(h), bl),
   h1 |-> reduce(LowU32(RotlW(h, 21)), bl),
   h2 |-> reduce(LowU32(RotlW(h, 42)), bl)]

geth0h1h2(k, sd, bl) == Hashes(mixsplit(k, sd), bl)

(***************************************************************************)
(* Bounds and inputs                                                       *)
(***************************************************************************)

\* longest slice handed to build_keys
MaxKeys == 3

\* longest pending key list
MaxPending == 2

\* peeling passes one build may start (the retry loop itself has no cap)
MaxPasses == 3

\* longest payload of an input buffer of from_bytes
MaxPayload == 3

K0   == FromInt(0, 8)
K42  == FromInt(42, 8)
\* 0xfffffffffffffe0f: key + seed wraps around, and under the first seed
\* it falls on the same three slots as 42 when block_length is 11
KBig == BE(<<\hff, \hff, \hff, \hff, \hff, \hff, \hfe, \h0f>>)

\* the 64-bit digests used as keys
Digests == {K0, K42, KBig}

\* sequences over S of length lo..hi
SeqsBetween(S, lo, hi) == UNION {[1..n -> S] : n \in lo..hi}

\* the slices &base[i..j] handed to build_keys; the last digest repeats one
Base == <<K0, K42, KBig, K42>>
Slices == {s \in {SubSeq(Base, i, j) : i \in 1..4, j \in 0..4} :
             Len(s) <= MaxKeys}

\* key values hashed through the filter's BuildHasher
KeyValues == {"a", "b"}

\* hasher.finish() of the filter's hasher fed with key: a fixed function of
\* the key value (the hasher is supplied from outside the filter)
hash_key(key) == IF key = "a" THEN K42 ELSE KBig

(***************************************************************************)
(* State                                                                   *)
(***************************************************************************)

VARIABLES
  self,        \* the Xor8 value: keys, seed, block_length, finger_prints
  loc,         \* the locals of the build_keys call in progress
  pc,          \* position: "idle", inside build_keys, or "panic"
  origin,      \* how self got its field values: "new", "built", "decoded"
  built_from,  \* the slice the last build_keys call was given
  ret          \* the last call: op, argument, status, returned data

vars == <<self, loc, pc, origin, built_from, ret>>

\* Option<T>: None, Some(v)
None == <<>>
Some(v) == <<v>>

\* XorSet::default()
XorSetDefault == [xor_mask |-> ZeroW(8), count |-> 0]

NoLocals == [keys |-> <<>>, size |-> 0, rngcounter |-> ZeroW(8), passes |-> 0,
             q0 |-> <<>>, q1 |-> <<>>, q2 |-> <<>>, stack |-> <<>>,
             sets0 |-> <<>>, sets1 |-> <<>>, sets2 |-> <<>>]

\* Xor8::default() / Xor8::new() / Xor8::with_hasher()
Xor8Default == [keys |-> Some(<<>>), seed |-> ZeroW(8),
                block_length |-> ZeroW(4), finger_prints |-> <<>>]

Call(op, arg, val, data) == [op |-> op, arg |-> arg, val |-> val, data |-> data]

Init ==
  /\ self = Xor8Default
  /\ loc = NoLocals
  /\ pc = "idle"
  /\ origin = "new"
  /\ built_from = <<>>
  /\ ret = Call("new", <<>>, "Ok", <<>>)

(***************************************************************************)
(* build_keys (src/lib.rs lines 238-427), one step per loop iteration      *)
(***************************************************************************)

\* faulty variant of Capacity: the capacity is not rounded down to a
\* multiple of 3
CapacityUnrounded(size) == 32 + ((123 * size + 99) \div 100)

\* 32 + ((1.23 * (size as f64)).ceil() as u32), rounded down to a multiple
\* of 3; for the sizes of the model the f64 product's ceiling is the exact
\* one, -((-123 * size) div 100)
Capacity(size) ==
  LET capacity == 32 + ((123 * size + 99) \div 100)
  IN  (capacity \div 3) * 3

\* vec![Default::default(); n]
Repeat(v, n) == Tuple([i \in 1..n |-> v])

\* faulty variant of StartBuild: the pending keys are built together with ks
StartBuildWithPending(f, ks) ==
  LET all == IF f.keys = None THEN ks ELSE f.keys[1] \o ks
      size == Len(all)
      capacity == Capacity(size)
      block_length == capacity \div 3
  IN  [pc   |-> "segment",
       self |-> [keys |-> f.keys,
                 seed |-> splitmix64(FromInt(1, 8)),
                 block_length |-> FromInt(block_length, 4),
                 finger_prints |-> Repeat(0, capacity)],
       loc  |-> [keys |-> all, size |-> size,
                 rngcounter |-> splitmix64_state(FromInt(1, 8)),
                 passes |-> 0,
                 q0 |-> <<>>, q1 |-> <<>>, q2 |-> <<>>, stack |-> <<>>,
                 sets0 |-> Repeat(XorSetDefault, block_length),
                 sets1 |-> Repeat(XorSetDefault, block_length),
                 sets2 |-> Repeat(XorSetDefault, block_length)]]

\* lines 239-255: the state before the first pass
StartBuild(f, ks) ==
  LET size == Len(ks)
      capacity == Capacity(size)
      block_length == capacity \div 3
  IN  [pc   |-> "segment",
       self |-> [keys |-> f.keys,
                 seed |-> splitmix64(FromInt(1, 8)),
                 block_length |-> FromInt(block_length, 4),
                 finger_prints |-> Repeat(0, capacity)],
       loc  |-> [keys |-> ks, size |-> size,
                 rngcounter |-> splitmix64_state(FromInt(1, 8)),
                 passes |-> 0,
                 q0 |-> <<>>, q1 |-> <<>>, q2 |-> <<>>, stack |-> <<>>,
                 sets0 |-> Repeat(XorSetDefault, block_length),
                 sets1 |-> Repeat(XorSetDefault, block_length),
                 sets2 |-> Repeat(XorSetDefault, block_length)]]

\* faulty variant of Accumulate: the count is set to 1, not incremented
AccumulateOnce(sets, i, h) ==
  [sets EXCEPT ![i + 1] = [xor_mask |-> XorW(@.xor_mask, h), count |-> 1]]

\* sets[i].xor_mask ^= h; sets[i].count += 1   (i a 0-based index)
Accumulate(sets, i, h) ==
  [sets EXCEPT ![i + 1] = [xor_mask |-> XorW(@.xor_mask, h),
                           count |-> @.count + 1]]

\* lines 260-265: one key is added to its slot of each segment
AddKey(hs, s) ==
  <<Accumulate(s[1], ToInt(hs.h0), hs.h),
    Accumulate(s[2], ToInt(hs.h1), hs.h),
    Accumulate(s[3], ToInt(hs.h2), hs.h)>>

\* lines 258-266: for key in keys.iter(), on s = <<sets0, sets1, sets2>>
RECURSIVE AddKeys(_, _, _)
AddKeys(f, ks, s) ==
  IF ks = <<>> THEN s
  ELSE AddKeys(f, Tail(ks),
               AddKey(geth0h1h2(Head(ks), f.seed, f.block_length), s))

\* lines 272-298: the slots of one segment with count 1, in index order
RECURSIVE Singletons(_, _, _)
Singletons(sets, i, n) ==
  IF i >= n \/ i >= Len(sets) THEN <<>>
  ELSE (IF sets[i + 1].count = 1
        THEN <<[index |-> i, hash |-> sets[i + 1].xor_mask]>>
        ELSE <<>>) \o Singletons(sets, i + 1, n)

AllEmpty(l) == l.q0 = <<>> /\ l.q1 = <<>> /\ l.q2 = <<>>

\* line 302: the test of the peeling loop
LoopTest(f, l) ==
  [pc |-> IF AllEmpty(l) THEN "check" ELSE "drain0", self |-> f, loc |-> l]

\* lines 268-300: the queues are seeded from s = <<sets0, sets1, sets2>>
\* and the stack is cleared
SeedQueues(l, s, bl) ==
  [l EXCEPT !.sets0 = s[1], !.sets1 = s[2], !.sets2 = s[3],
            !.q0 = Singletons(s[1], 0, bl),
            !.q1 = Singletons(s[2], 0, bl),
            !.q2 = Singletons(s[3], 0, bl),
            !.stack = <<>>,
            !.passes = @ + 1]

\* lines 258-302: segmentation, queue seeding, stack.clear(), loop test
Segment(f, l) ==
  LoopTest(f, SeedQueues(l, AddKeys(f, l.keys, <<l.sets0, l.sets1, l.sets2>>),
                         ToInt(f.block_length)))

\* Vec::pop: the last element and the rest
Last(q) == q[Len(q)]
Front(q) == SubSeq(q, 1, Len(q) - 1)

\* faulty variant of Release: the count is not decremented
ReleaseKeepCount(sets, i, hash) ==
  [sets EXCEPT ![i + 1] = [xor_mask |-> XorW(@.xor_mask, hash),
                           count |-> @.count]]

\* s.xor_mask ^= hash; s.count -= 1 on sets[i]
Release(sets, i, hash) ==
  [sets EXCEPT ![i + 1] = [xor_mask |-> XorW(@.xor_mask, hash),
                           count |-> @.count - 1]]

\* if s.count == 1 { q.push(KeyIndex { index, hash: s.xor_mask }) }
PushIfSingle(q, sets, i) ==
  IF sets[i + 1].count = 1
  THEN Append(q, [index |-> i, hash |-> sets[i + 1].xor_mask])
  ELSE q

\* lines 303-332: one iteration of `while let Some(keyindexvar) = q0.pop()`
Peel0(f, l) ==
  LET keyindexvar == Last(l.q0)
      q0 == Front(l.q0)
  IN  IF l.sets0[keyindexvar.index + 1].count = 0
      THEN [pc |-> "drain0", self |-> f, loc |-> [l EXCEPT !.q0 = q0]]
      ELSE LET hash == keyindexvar.hash
               h1 == ToInt(geth1(hash, f.block_length))
               h2 == ToInt(geth2(hash, f.block_length))
               sets1 == Release(l.sets1, h1, hash)
               sets2 == Release(l.sets2, h2, hash)
           IN  [pc |-> "drain0", self |-> f,
                loc |-> [l EXCEPT !.q0 = q0,
                                  !.stack = Append(@, keyindexvar),
                                  !.sets1 = sets1,
                                  !.q1 = PushIfSingle(@, sets1, h1),
                                  !.sets2 = sets2,
                                  !.q2 = PushIfSingle(@, sets2, h2)]]

\* faulty variant of Peel1: the popped item is used without the test of
\* its slot's count
Peel1NoStaleCheck(f, l) ==
  [pc |-> "drain1", self |-> f,
   loc |-> [l EXCEPT
     !.q1 = Front(l.q1),
     !.stack = Append(@, [Last(l.q1) EXCEPT !.index = @ + ToInt(f.block_length)]),
     !.sets0 = Release(@, ToInt(geth0(Last(l.q1).hash, f.block_length)),
                       Last(l.q1).hash),
     !.sets2 = Release(@, ToInt(geth2(Last(l.q1).hash, f.block_length)),
                       Last(l.q1).hash)]]

\* lines 333-362: one iteration of `while let Some(keyindexvar) = q1.pop()`
Peel1(f, l) ==
  LET keyindexvar == Last(l.q1)
      q1 == Front(l.q1)
  IN  IF l.sets1[keyindexvar.index + 1].count = 0
      THEN [pc |-> "drain1", self |-> f, loc |-> [l EXCEPT !.q1 = q1]]
      ELSE LET hash == keyindexvar.hash
               h0 == ToInt(geth0(hash, f.block_length))
               h2 == ToInt(geth2(hash, f.block_length))
               sets0 == Release(l.sets0, h0, hash)
               sets2 == Release(l.sets2, h2, hash)
               pushed == [keyindexvar EXCEPT
                            !.index = @ + ToInt(f.block_length)]
           IN  [pc |-> "drain1", self |-> f,
                loc |-> [l EXCEPT !.q1 = q1,
                                  !.stack = Append(@, pushed),
                                  !.sets0 = sets0,
                                  !.q0 = PushIfSingle(@, sets0, h0),
                                  !.sets2 = sets2,
                                  !.q2 = PushIfSingle(@, sets2, h2)]]

\* lines 363-391: one iteration of `while let Some(keyindexvar) = q2.pop()`
Peel2(f, l) ==
  LET keyindexvar == Last(l.q2)
      q2 == Front(l.q2)
  IN  IF l.sets2[keyindexvar.index + 1].count = 0
      THEN [pc |-> "drain2", self |-> f, loc |-> [l EXCEPT !.q2 = q2]]
      ELSE LET hash == keyindexvar.hash
               h0 == ToInt(geth0(hash, f.block_length))
               h1 == ToInt(geth1(hash, f.block_length))
               sets0 == Release(l.sets0, h0, hash)
               sets1 == Release(l.sets1, h1, hash)
               pushed == [keyindexvar EXCEPT
                            !.index = @ + 2 * ToInt(f.block_length)]
           IN  [pc |-> "drain2", self |-> f,
                loc |-> [l EXCEPT !.q2 = q2,
                                  !.stack = Append(@, pushed),
                                  !.sets0 = sets0,
                                  !.q0 = PushIfSingle(@, sets0, h0),
                                  !.sets1 = sets1,
                                  !.q1 = PushIfSingle(@, sets1, h1)]]

\* a drained queue: on to the next inner loop, and after q2 back to the
\* test of line 302
Advance(p, f, l) ==
  [pc |-> CASE p = "drain0" -> "drain1"
            [] p = "drain1" -> "drain2"
            [] OTHER -> IF AllEmpty(l) THEN "check" ELSE "drain0",
   self |-> f, loc |-> l]

\* lines 394-396: the pass peeled every key
Peeled(l) == Len(l.stack) = l.size

\* faulty variant of Reseed: the accumulators keep the counts and masks of
\* the failed pass
ReseedKeepSets(f, l) ==
  [pc   |-> "segment",
   self |-> [f EXCEPT !.seed = splitmix64(l.rngcounter)],
   loc  |-> [l EXCEPT !.rngcounter = splitmix64_state(@)]]

\* lines 398-407: the accumulators are reset and a new seed is drawn
Reseed(f, l) ==
  [pc   |-> "segment",
   self |-> [f EXCEPT !.seed = splitmix64(l.rngcounter)],
   loc  |-> [l EXCEPT !.sets0 = Repeat(XorSetDefault, Len(@)),
                      !.sets1 = Repeat(XorSetDefault, Len(@)),
                      !.sets2 = Repeat(XorSetDefault, Len(@)),
                      !.rngcounter = splitmix64_state(@)]]

\* faulty variant of Assign: the slot gets the key's fingerprint alone, the
\* two other slots of the key are not xored in
AssignFingerprintOnly(f, l) ==
  [pc   |-> "assign",
   self |-> [f EXCEPT !.finger_prints[Last(l.stack).index + 1] =
                        AsU8(fingerprint(Last(l.stack).hash))],
   loc  |-> [l EXCEPT !.stack = Front(@)]]

\* faulty variant of Assign: the stack is emptied from its bottom, the
\* entries are assigned in the order they were peeled
AssignFifo(f, l) ==
  LET ki  == Head(l.stack)
      bl  == ToInt(f.block_length)
      fp  == f.finger_prints
      val == AsU8(fingerprint(ki.hash))
      h0  == ToInt(geth0(ki.hash, f.block_length))
      h1  == ToInt(geth1(ki.hash, f.block_length)) + bl
      h2  == ToInt(geth2(ki.hash, f.block_length)) + 2 * bl
      v   == IF ki.index < bl
               THEN XorByte(val, XorByte(fp[h1 + 1], fp[h2 + 1]))
             ELSE IF ki.index < 2 * bl
               THEN XorByte(val, XorByte(fp[h0 + 1], fp[h2 + 1]))
             ELSE XorByte(val, XorByte(fp[h0 + 1], fp[h1 + 1]))
  IN  [pc   |-> "assign",
       self |-> [f EXCEPT !.finger_prints[ki.index + 1] = v],
       loc  |-> [l EXCEPT !.stack = Tail(@)]]

\* lines 410-426: one iteration of `while let Some(ki) = stack.pop()`
Assign(f, l) ==
  LET ki  == Last(l.stack)
      bl  == ToInt(f.block_length)
      fp  == f.finger_prints
      val == AsU8(fingerprint(ki.hash))
      h0  == ToInt(geth0(ki.hash, f.block_length))
      h1  == ToInt(geth1(ki.hash, f.block_length)) + bl
      h2  == ToInt(geth2(ki.hash, f.block_length)) + 2 * bl
      v   == IF ki.index < bl
               THEN XorByte(val, XorByte(fp[h1 + 1], fp[h2 + 1]))
             ELSE IF ki.index < 2 * bl
               THEN XorByte(val, XorByte(fp[h0 + 1], fp[h2 + 1]))
             ELSE XorByte(val, XorByte(fp[h0 + 1], fp[h1 + 1]))
  IN  [pc   |-> "assign",
       self |-> [f EXCEPT !.finger_prints[ki.index + 1] = v],
       loc  |-> [l EXCEPT !.stack = Front(@)]]

(***************************************************************************)
(* Query (src/lib.rs lines 430-449)                                        *)
(***************************************************************************)

\* v as usize used as an index of a Vec of n elements passes the bounds check
InBounds(v, n) == IsSmall(v) /\ ToInt(v) < n

\* contains_key(key) on f. checked: the build traps integer overflow (a
\* debug build) instead of wrapping (a release build). The result is
\* "true" or "false", or the panic the call ends with.
\* 2 * self.block_length, wrapping
Twice(bl) == LowU32(MulW(WidenU64(FromInt(2, 4)), WidenU64(bl)))

\* line 448 for the fingerprint f and the indexes h0, h1, h2 (as usize)
Compare(fp, fv, h0, h1, h2) ==
  IF ~ (InBounds(h0, Len(fp)) /\ InBounds(h1, Len(fp)) /\ InBounds(h2, Len(fp)))
    THEN "index_out_of_bounds"
  ELSE IF fv = XorByte(fp[ToInt(h0) + 1],
                       XorByte(fp[ToInt(h1) + 1], fp[ToInt(h2) + 1]))
    THEN "true"
  ELSE "false"

\* lines 441-448 for the master hash; r0, r1, r2 are the reduced values
Probe(f, hash, r0, r1, r2, checked) ==
  IF checked /\ (\/ AddOverflows(r1, f.block_length)
                 \/ f.block_length[4] >= 128
                 \/ AddOverflows(r2, Twice(f.block_length)))
    THEN "arithmetic_overflow"
  ELSE Compare(f.finger_prints, AsU8(fingerprint(hash)),
               r0, AddW(r1, f.block_length), AddW(r2, Twice(f.block_length)))

\* lines 442-447: the three reduced values of the master hash
Lookup(f, hash, checked) ==
  Probe(f, hash,
        reduce(LowU32(hash), f.block_length),
        reduce(LowU32(RotlW(hash, 21)), f.block_length),
        reduce(LowU32(RotlW(hash, 42)), f.block_length), checked)

contains_key(f, key, checked) == Lookup(f, mixsplit(key, f.seed), checked)

(***************************************************************************)
(* Binary codec and CborXor8 (src/lib.rs lines 485-549 and 614-652)        *)
(***************************************************************************)

\* [b'^', b'T', b'L', 1]
SIGNATURE_V1 == <<94, 84, 76, 1>>

METADATA_LENGTH == 20

\* to_be_bytes and from_be_bytes: words are held least significant byte first
to_be_bytes(w) == Tuple([i \in 1..Len(w) |-> w[Len(w) + 1 - i]])
from_be_bytes(b) == Tuple([i \in 1..Len(b) |-> b[Len(b) + 1 - i]])

\* faulty variant of to_bytes: the seed is written least significant
\* byte first
to_bytes_le(f) ==
  SIGNATURE_V1 \o f.seed \o to_be_bytes(f.block_length)
    \o to_be_bytes(FromInt(Len(f.finger_prints), 4)) \o f.finger_prints

to_bytes(f) ==
  SIGNATURE_V1 \o to_be_bytes(f.seed) \o to_be_bytes(f.block_length)
    \o to_be_bytes(FromInt(Len(f.finger_prints), 4)) \o f.finger_prints

\* buf[from..]
SliceFrom(buf, from) == SubSeq(buf, from + 1, Len(buf))

\* faulty variant of from_bytes: the signature is not compared
from_bytes_unsigned(buf) ==
  IF METADATA_LENGTH > Len(buf)
    THEN [val |-> "InvalidData", data |-> <<>>]
  ELSE LET fp_len == from_be_bytes(SubSeq(buf, 17, 20))
       IN  IF ~ IsSmall(fp_len) \/ Len(SubSeq(buf, 21, Len(buf))) < ToInt(fp_len)
             THEN [val |-> "InvalidData", data |-> <<>>]
           ELSE [val |-> "Ok",
                 data |-> [keys |-> None,
                           seed |-> from_be_bytes(SubSeq(buf, 5, 12)),
                           block_length |-> from_be_bytes(SubSeq(buf, 13, 16)),
                           finger_prints |-> SubSeq(buf, 21, Len(buf))]]

\* from_bytes(buf): the error kind, or the decoded filter
from_bytes(buf) ==
  IF METADATA_LENGTH > Len(buf)
    THEN [val |-> "InvalidData", data |-> <<>>]
  ELSE IF SubSeq(buf, 1, 4) # SIGNATURE_V1
    THEN [val |-> "InvalidData", data |-> <<>>]
  ELSE LET fp_len == from_be_bytes(SubSeq(buf, 17, 20))
       IN  IF ~ IsSmall(fp_len) \/ Len(SliceFrom(buf, 20)) < ToInt(fp_len)
             THEN [val |-> "InvalidData", data |-> <<>>]
           ELSE [val |-> "Ok",
                 data |-> [keys |-> None,
                           seed |-> from_be_bytes(SubSeq(buf, 5, 12)),
                           block_length |-> from_be_bytes(SubSeq(buf, 13, 16)),
                           finger_prints |-> SliceFrom(buf, 20)]]

\* From<Xor8<H>> for CborXor8; the default hasher converts to vec![]
into_cbor(f) == [hash_builder |-> <<>>, seed |-> f.seed,
                 block_length |-> f.block_length,
                 finger_prints |-> f.finger_prints]

\* From<CborXor8> for Xor8<H>
from_cbor(val) == [keys |-> None, seed |-> val.seed,
                   block_length |-> val.block_length,
                   finger_prints |-> val.finger_prints]

\* input buffers of from_bytes: every combination of a signature, a seed,
\* a block length, a declared length and a payload, and three short ones
Payloads == {Tuple([i \in 1..n |-> (m * i) % 256]) : n \in 0..MaxPayload, m \in {0, 37}}
DeclaredLengths == {FromInt(n, 4) : n \in 0..(MaxPayload + 1)} \cup {<<0, 0, 0, 1>>}
Buffers ==
  {sig \o to_be_bytes(sd) \o to_be_bytes(bl) \o to_be_bytes(fl) \o pl :
     sig \in {SIGNATURE_V1, <<88, 88, 88, 88>>},
     sd \in {ZeroW(8), splitmix64(FromInt(1, 8))},
     bl \in {FromInt(0, 4), FromInt(1, 4), <<0, 0, 0, 128>>},
     fl \in DeclaredLengths,
     pl \in Payloads}
  \cup {SubSeq(SIGNATURE_V1 \o ZeroW(16), 1, n) : n \in {0, 10, 19}}

(***************************************************************************)
(* Actions: one per public operation, and one per step of build_keys       *)
(***************************************************************************)

Idle == pc = "idle"

\* self.keys.as_mut().unwrap() panics on None
Panic(op) ==
  /\ pc' = "panic"
  /\ ret' = Call(op, <<>>, "panic", <<>>)
  /\ UNCHANGED <<self, loc, origin, built_from>>

\* the pending keys extended by the digests ds (lines 209, 219, 225)
Extend(op, ds) ==
  IF self.keys = None THEN Panic(op)
  ELSE /\ Len(self.keys[1]) + Len(ds) <= MaxPending
       /\ self' = [self EXCEPT !.keys = Some(self.keys[1] \o ds)]
       /\ ret' = Call(op, <<>>, "Ok", <<>>)
       /\ UNCHANGED <<loc, pc, origin, built_from>>

\* insert(key), lines 203-210
Insert ==
  /\ Idle
  /\ \E key \in KeyValues : Extend("insert", <<hash_key(key)>>)

\* populate(keys), lines 215-221
Populate ==
  /\ Idle
  /\ \E ks \in SeqsBetween(KeyValues, 0, 2) :
       Extend("populate", Tuple([i \in 1..Len(ks) |-> hash_key(ks[i])]))

\* populate_keys(keys), lines 224-226
PopulateKeys ==
  /\ Idle
  /\ \E ds \in SeqsBetween(Digests, 0, 2) : Extend("populate_keys", ds)

\* the call enters build_keys(ks) on the filter f
Enter(op, f, ks) ==
  LET r == StartBuild(f, ks)
  IN  /\ pc' = r.pc
      /\ self' = r.self
      /\ loc' = r.loc
      /\ origin' = "built"
      /\ built_from' = ks
      /\ ret' = Call(op, <<>>, "running", <<>>)

\* build(), lines 230-233: self.keys.take().unwrap(), then build_keys
Build ==
  /\ Idle
  /\ IF self.keys = None THEN Panic("build")
     ELSE Enter("build", [self EXCEPT !.keys = None], self.keys[1])

\* build_keys(keys), line 238
BuildKeys ==
  /\ Idle
  /\ \E ks \in Slices : Enter("build_keys", self, ks)

Step(r) ==
  /\ pc' = r.pc
  /\ self' = r.self
  /\ loc' = r.loc
  /\ UNCHANGED <<origin, built_from, ret>>

SegmentStep ==
  /\ pc = "segment"
  /\ loc.passes < MaxPasses
  /\ Step(Segment(self, loc))

Peel0Step == pc = "drain0" /\ loc.q0 # <<>> /\ Step(Peel0(self, loc))
Peel1Step == pc = "drain1" /\ loc.q1 # <<>> /\ Step(Peel1(self, loc))
Peel2Step == pc = "drain2" /\ loc.q2 # <<>> /\ Step(Peel2(self, loc))

AdvanceStep ==
  /\ \/ pc = "drain0" /\ loc.q0 = <<>>
     \/ pc = "drain1" /\ loc.q1 = <<>>
     \/ pc = "drain2" /\ loc.q2 = <<>>
  /\ Step(Advance(pc, self, loc))

\* line 394: break
PeelDone ==
  /\ pc = "check"
  /\ Peeled(loc)
  /\ Step([pc |-> "assign", self |-> self, loc |-> loc])

\* lines 398-407, then back to line 258
Retry ==
  /\ pc = "check"
  /\ ~ Peeled(loc)
  /\ Step(Reseed(self, loc))

AssignStep == pc = "assign" /\ loc.stack # <<>> /\ Step(Assign(self, loc))

\* line 427: the locals are dropped
BuildReturn ==
  /\ pc = "assign"
  /\ loc.stack = <<>>
  /\ pc' = "idle"
  /\ loc' = NoLocals
  /\ ret' = [ret EXCEPT !.val = "Ok"]
  /\ UNCHANGED <<self, origin, built_from>>

\* the outcome of a query: a panic ends the program
Query(op, arg, digest) ==
  \E checked \in BOOLEAN :
    LET v == contains_key(self, digest, checked)
    IN  /\ ret' = Call(op, arg, v, <<>>)
        /\ pc' = IF v \in {"true", "false"} THEN "idle" ELSE "panic"
        /\ UNCHANGED <<self, loc, origin, built_from>>

\* contains(key), lines 430-437
Contains ==
  /\ Idle
  /\ \E key \in KeyValues : Query("contains", key, hash_key(key))

\* contains_key(key), lines 439-449
ContainsKey ==
  /\ Idle
  /\ \E key \in Digests : Query("contains_key", key, key)

\* to_bytes(), lines 513-522
ToBytes ==
  /\ Idle
  /\ ret' = Call("to_bytes", <<>>, "Ok", to_bytes(self))
  /\ UNCHANGED <<self, loc, pc, origin, built_from>>

\* the filter is replaced by the one a decoder returned
Decoded(op, buf, r) ==
  /\ ret' = Call(op, buf, r.val, <<>>)
  /\ IF r.val = "Ok"
     THEN self' = r.data /\ origin' = "decoded"
     ELSE UNCHANGED <<self, origin>>
  /\ UNCHANGED <<loc, pc, built_from>>

\* from_bytes(buf), lines 524-549, on a buffer from outside. The function
\* reads no filter, so it is applied once, before any filter is used.
FromBytes ==
  /\ Idle
  /\ ret.op = "new"
  /\ \E buf \in Buffers : Decoded("from_bytes", buf, from_bytes(buf))

\* from_bytes on the buffer to_bytes has just returned
Reload ==
  /\ Idle
  /\ ret.op = "to_bytes"
  /\ Decoded("from_bytes", ret.data, from_bytes(ret.data))

\* CborXor8::from(filter), lines 625-637
IntoCbor ==
  /\ Idle
  /\ ret' = Call("into_cbor", <<>>, "Ok", into_cbor(self))
  /\ UNCHANGED <<self, loc, pc, origin, built_from>>

\* Xor8::from(cbor), lines 639-652, on the value into_cbor has just returned
FromCbor ==
  /\ Idle
  /\ ret.op = "into_cbor"
  /\ Decoded("from_cbor", ret.data, [val |-> "Ok", data |-> from_cbor(ret.data)])

Next ==
  \/ Insert
  \/ Populate
  \/ PopulateKeys
  \/ Build
  \/ BuildKeys
  \/ SegmentStep
  \/ Peel0Step
  \/ Peel1Step
  \/ Peel2Step
  \/ AdvanceStep
  \/ PeelDone
  \/ Retry
  \/ AssignStep
  \/ BuildReturn
  \/ Contains
  \/ ContainsKey
  \/ ToBytes
  \/ FromBytes
  \/ Reload
  \/ IntoCbor
  \/ FromCbor

Spec == Init /\ [][Next]_vars

(***************************************************************************)
(* build_keys as one call: the steps above run to the return, or to the    *)
(* pass bound                                                              *)
(***************************************************************************)

RECURSIVE RunBuild(_)
RunBuild(r) ==
  CASE r.pc = "segment" ->
         IF r.loc.passes < MaxPasses THEN RunBuild(Segment(r.self, r.loc)) ELSE r
    [] r.pc = "drain0" ->
         IF r.loc.q0 # <<>> THEN RunBuild(Peel0(r.self, r.loc))
         ELSE RunBuild(Advance(r.pc, r.self, r.loc))
    [] r.pc = "drain1" ->
         IF r.loc.q1 # <<>> THEN RunBuild(Peel1(r.self, r.loc))
         ELSE RunBuild(Advance(r.pc, r.self, r.loc))
    [] r.pc = "drain2" ->
         IF r.loc.q2 # <<>> THEN RunBuild(Peel2(r.self, r.loc))
         ELSE RunBuild(Advance(r.pc, r.self, r.loc))
    [] r.pc = "check" ->
         IF Peeled(r.loc)
         THEN RunBuild([pc |-> "assign", self |-> r.self, loc |-> r.loc])
         ELSE RunBuild(Reseed(r.self, r.loc))
    [] OTHER ->
         IF r.loc.stack # <<>> THEN RunBuild(Assign(r.self, r.loc))
         ELSE [pc |-> "idle", self |-> r.self, loc |-> NoLocals]

\* build_keys(ks) on the filter f
build_keys(f, ks) == RunBuild(StartBuild(f, ks))

(***************************************************************************)
(* Properties                                                              *)
(***************************************************************************)

\* the three slots of the digest k in the filter f xor to the low byte of
\* the fingerprint of mix(k + seed)
XorIdentity(f, k) ==
  LET hs == geth0h1h2(k, f.seed, f.block_length)
      bl == ToInt(f.block_length)
      fp == f.finger_prints
  IN  /\ ToInt(hs.h2) + 2 * bl < Len(fp)
      /\ XorByte(fp[ToInt(hs.h0) + 1],
                 XorByte(fp[ToInt(hs.h1) + bl + 1], fp[ToInt(hs.h2) + 2 * bl + 1]))
           = fingerprint(hs.h)[1]

\* C1: once build or build_keys has returned, every digest k of the key set
\* it was given satisfies the xor identity on its three slots, and
\* contains_key(k) is true (no false negatives)
NoFalseNegatives ==
  (pc = "idle" /\ origin = "built") =>
    \A i \in 1..Len(built_from) :
      /\ XorIdentity(self, built_from[i])
      /\ \A checked \in BOOLEAN :
           contains_key(self, built_from[i], checked) = "true"

\* a build from three digests has returned and contains_key has answered
\* true for one of them
NoFalseNegativesWitness ==
  /\ pc = "idle"
  /\ origin = "built"
  /\ built_from = <<K0, K42, KBig>>
  /\ ret = Call("contains_key", KBig, "true", <<>>)

\* C2: on a filter that build or build_keys produced, and on a filter a
\* successful from_bytes returned, contains and contains_key return a
\* boolean: no call ends in a panic on an index outside the fingerprints
QueryTotal ==
  (ret.op \in {"contains", "contains_key"} /\ origin \in {"built", "decoded"})
    => ret.val \in {"true", "false"}

\* a query on a filter that build_keys produced has returned a boolean
QueryTotalWitness ==
  /\ origin = "built"
  /\ built_from = <<K42, KBig>>
  /\ ret = Call("contains_key", K0, "false", <<>>)

\* the big-endian number in the bytes b, for numbers that fit a model integer
RECURSIVE BigEndian(_)
BigEndian(b) == IF b = <<>> THEN 0 ELSE b[Len(b)] + 256 * BigEndian(Front(b))

\* the fingerprint length the buffer b declares at offsets 16..20 is more
\* than the bytes b holds after offset 20
DeclaresTooMuch(b) ==
  \/ b[17] # 0
  \/ BigEndian(SubSeq(b, 18, 20)) > Len(b) - 20

\* C3: the filter a successful from_bytes returns has the seed at offsets
\* 4..12, the block length at offsets 12..16, as fingerprints exactly the
\* declared number of bytes from offset 20 on, and no pending keys
DecodeFollowsLayout ==
  (ret.op = "from_bytes" /\ ret.val = "Ok") =>
    /\ to_be_bytes(self.seed) = SubSeq(ret.arg, 5, 12)
    /\ to_be_bytes(self.block_length) = SubSeq(ret.arg, 13, 16)
    /\ self.finger_prints =
         SubSeq(ret.arg, 21, 20 + BigEndian(SubSeq(ret.arg, 17, 20)))
    /\ self.keys \in {None, Some(<<>>)}

\* from_bytes has decoded a buffer whose payload has the declared length
DecodeFollowsLayoutWitness ==
  /\ ret.op = "from_bytes"
  /\ ret.val = "Ok"
  /\ Len(ret.arg) = 20 + MaxPayload
  /\ self.finger_prints = SubSeq(ret.arg, 21, 20 + MaxPayload)
  /\ self.finger_prints[1] # 0

\* C4: from_bytes returns InvalidData, ends in no panic and produces no
\* filter for a buffer shorter than 20 bytes, for a buffer whose first four
\* bytes are not '^', 'T', 'L', 1, and for a buffer that declares more
\* fingerprint bytes than follow its header
RejectsCorrupt ==
  (/\ ret.op = "from_bytes"
   /\ \/ Len(ret.arg) < 20
      \/ SubSeq(ret.arg, 1, 4) # <<94, 84, 76, 1>>
      \/ DeclaresTooMuch(ret.arg))
    => /\ ret.val = "InvalidData"
       /\ pc = "idle"
       /\ origin = "new"
       /\ self = Xor8Default

\* from_bytes has rejected a buffer of 20 bytes or more with the right
\* signature, for its declared length
RejectsCorruptWitness ==
  /\ ret.op = "from_bytes"
  /\ ret.val = "InvalidData"
  /\ Len(ret.arg) > 20
  /\ SubSeq(ret.arg, 1, 4) = SIGNATURE_V1

\* the filter g has the seed, block length and fingerprints of f, answers
\* every query as f does, and reports every digest of ks present
SameFilter(f, g, ks) ==
  /\ g.seed = f.seed
  /\ g.block_length = f.block_length
  /\ g.finger_prints = f.finger_prints
  /\ \A d \in Digests : \A checked \in BOOLEAN :
       contains_key(g, d, checked) = contains_key(f, d, checked)
  /\ \A i \in 1..Len(ks) : contains_key(g, ks[i], FALSE) = "true"

\* C5: from_bytes applied to the bytes to_bytes returned for a filter
\* succeeds and yields that filter's seed, block length and fingerprints,
\* hence its answers to contains_key; so does the conversion to the 4-tuple
\* of CborXor8 and back; every key of the build is still reported present
RoundTrip ==
  [][/\ (ret.op = "to_bytes" /\ ret'.op = "from_bytes")
          => (/\ ret'.arg = to_bytes(self)
              /\ ret'.val = "Ok"
              /\ SameFilter(self, self', built_from))
     /\ (ret.op = "into_cbor" /\ ret'.op = "from_cbor")
          => (/\ ret.data.hash_builder = <<>>
              /\ ret'.val = "Ok"
              /\ SameFilter(self, self', built_from))]_vars

\* a filter built from three digests has been reloaded from its bytes
RoundTripWitness ==
  /\ ret.op = "from_bytes"
  /\ ret.val = "Ok"
  /\ origin = "decoded"
  /\ built_from = <<K0, K42, KBig>>
  /\ Len(ret.arg) = 20 + Len(self.finger_prints)
  /\ \E i \in 1..Len(self.finger_prints) : self.finger_prints[i] # 0

\* the least c with c >= 1.23 * n, for n keys
Ceil123(n) == CHOOSE c \in 0..(2 * n) : 100 * c >= 123 * n /\ 100 * (c - 1) < 123 * n

\* C6: from the start of build_keys over n keys on, through every retry and
\* after the return, 3 * block_length is 32 + ceil(1.23 * n) rounded down to
\* a multiple of 3 and the fingerprints number 3 * block_length;
\* block_length is not zero, and for n = 0 it is 10 with 30 fingerprints
SizingInvariant ==
  origin = "built" =>
    LET n  == Len(built_from)
        bl == ToInt(self.block_length)
    IN  /\ IsSmall(self.block_length)
        /\ bl # 0
        /\ 3 * bl <= 32 + Ceil123(n)
        /\ 32 + Ceil123(n) < 3 * bl + 3
        /\ Len(self.finger_prints) = 3 * bl
        /\ n = 0 => (bl = 10 /\ Len(self.finger_prints) = 30)

\* a build over two digests has returned after a retry drew a new seed
SizingInvariantWitness ==
  /\ pc = "idle"
  /\ origin = "built"
  /\ built_from = <<K42, KBig>>
  /\ ret.val = "Ok"
  /\ self.seed # splitmix64(FromInt(1, 8))
  /\ self.block_length = FromInt(11, 4)
  /\ Len(self.finger_prints) = 33

\* C7: contains and contains_key on a filter that was never built, with or
\* without pending keys, do not go on to index its empty fingerprint array
NeverBuiltQueryGuarded ==
  (ret.op \in {"contains", "contains_key"} /\ origin = "new")
    => ret.val # "index_out_of_bounds"

\* C8: after build() has returned, the filter takes new keys through
\* insert, populate and populate_keys, and the next build() builds from
\* those keys alone
ReusableAfterBuild ==
  [][(/\ ret.op = "build"
      /\ ret.val = "Ok"
      /\ pc = "idle"
      /\ ret'.op \in {"insert", "populate", "populate_keys", "build"})
       => /\ ret'.op # "build" => ret'.val = "Ok"
          /\ ret'.op = "build" => (ret'.val = "panic" \/ built_from' = <<>>)]_vars

\* build() has returned for a pending key
ReusableAfterBuildWitness ==
  /\ ret = Call("build", <<>>, "Ok", <<>>)
  /\ pc = "idle"
  /\ built_from = <<K42>>
  /\ self.keys = None

\* C9: build_keys(ks) leaves the pending keys as they are, and the seed,
\* block length and fingerprints it returns with are those of build_keys(ks)
\* on a new filter, whatever keys are pending
BuildKeysIgnoresPending ==
  [][ret'.op = "build_keys" =>
       /\ self'.keys = self.keys
       /\ (pc' = "idle" /\ pc # "idle") =>
            LET r == build_keys(Xor8Default, built_from).self
            IN  /\ self'.seed = r.seed
                /\ self'.block_length = r.block_length
                /\ self'.finger_prints = r.finger_prints]_vars

\* build_keys has returned for two digests while a third one is pending
BuildKeysIgnoresPendingWitness ==
  /\ ret = Call("build_keys", <<>>, "Ok", <<>>)
  /\ pc = "idle"
  /\ built_from = <<K0, K42>>
  /\ self.keys = Some(<<KBig>>)

\* C11: a build from a single digest k runs one peeling pass: the pass ends
\* with one entry on the stack, the seed stays the first value drawn from
\* the counter started at 1, and after the return contains_key(k) is true
SingleKeyOnePass ==
  (origin = "built" /\ Len(built_from) = 1) =>
    /\ loc.passes <= 1
    /\ self.seed = splitmix64(FromInt(1, 8))
    /\ pc = "check" => Len(loc.stack) = 1
    /\ pc = "idle" =>
         \A checked \in BOOLEAN :
           contains_key(self, built_from[1], checked) = "true"

\* the build from the single digest 42 has returned and contains_key(42)
\* has answered true
SingleKeyOnePassWitness ==
  /\ pc = "idle"
  /\ origin = "built"
  /\ built_from = <<K42>>
  /\ ret = Call("contains_key", K42, "true", <<>>)

\* the elements of the sequence q
Range(q) == {q[i] : i \in 1..Len(q)}

\* the three composite fingerprint indexes of the master hash
Slots3(hash, bl) ==
  {ToInt(geth0(hash, bl)),
   ToInt(geth1(hash, bl)) + ToInt(bl),
   ToInt(geth2(hash, bl)) + 2 * ToInt(bl)}

\* C12: in the assignment loop the entries on the stack have pairwise
\* different composite indexes, so every slot is written at most once; an
\* iteration pops one entry and writes the fingerprint at its index alone;
\* and no entry popped later has its index among the three slots of the
\* popped one, so the two slots read are final
BackSubstitutionOrder ==
  [][(pc = "assign" /\ loc.stack # <<>> /\ pc' = "assign") =>
       /\ \A i, j \in 1..Len(loc.stack) :
            i # j => loc.stack[i].index # loc.stack[j].index
       /\ Cardinality(Range(loc.stack) \ Range(loc'.stack)) = 1
       /\ Len(loc'.stack) = Len(loc.stack) - 1
       /\ \A w \in Range(loc.stack) \ Range(loc'.stack) :
            /\ w.index \in Slots3(w.hash, self.block_length)
            /\ \A i \in 1..Len(self.finger_prints) :
                 i # w.index + 1 => self'.finger_prints[i] = self.finger_prints[i]
            /\ \A e \in Range(loc'.stack) :
                 e.index \notin Slots3(w.hash, self.block_length)]_vars

\* the assignment loop of a build from three digests is about to pop its
\* last entry, and one of the two slots it will read holds a fingerprint
\* written by an earlier iteration
BackSubstitutionOrderWitness ==
  /\ pc = "assign"
  /\ built_from = <<K0, K42, KBig>>
  /\ Len(loc.stack) = 1
  /\ \E i \in Slots3(loc.stack[1].hash, self.block_length) \ {loc.stack[1].index} :
       self.finger_prints[i + 1] # 0

\* the counter of splitmix64 after j draws, started at 1
RECURSIVE CounterAt(_)
CounterAt(j) == IF j = 0 THEN FromInt(1, 8) ELSE AddW(CounterAt(j - 1), Golden)

\* the j-th value drawn from the counter started at 1
SeedAt(j) == splitmix64(CounterAt(j - 1))

\* every slot of the accumulator array has xor_mask 0 and count 0
Cleared(sets) ==
  \A i \in 1..Len(sets) : sets[i] = [xor_mask |-> ZeroW(8), count |-> 0]

\* C13: a pass goes on to the assignment iff its stack holds n entries;
\* otherwise the three accumulator arrays are reset, the queues are empty,
\* the seed becomes the next draw of the counter started at 1, and block
\* length, keys and the all-zero fingerprints stay as they are; the next
\* pass starts from segmentation with an empty stack; the seed the build
\* returns with is the j-th draw, j the number of passes run, and the call
\* returns Ok
ReseedProtocol ==
  [][/\ (pc = "check" /\ pc' = "assign") => Len(loc.stack) = loc.size
     /\ (pc = "check" /\ pc' # "assign") =>
          /\ Len(loc.stack) # loc.size
          /\ pc' = "segment"
          /\ Cleared(loc'.sets0) /\ Cleared(loc'.sets1) /\ Cleared(loc'.sets2)
          /\ Len(loc'.sets0) = ToInt(self.block_length)
          /\ Len(loc'.sets1) = ToInt(self.block_length)
          /\ Len(loc'.sets2) = ToInt(self.block_length)
          /\ loc'.q0 = <<>> /\ loc'.q1 = <<>> /\ loc'.q2 = <<>>
          /\ self'.seed = SeedAt(loc.passes + 1)
          /\ loc'.rngcounter = CounterAt(loc.passes + 1)
          /\ self'.block_length = self.block_length
          /\ self'.finger_prints = self.finger_prints
          /\ \A i \in 1..Len(self.finger_prints) : self.finger_prints[i] = 0
          /\ loc'.keys = loc.keys /\ loc'.size = loc.size
          /\ ret' = ret /\ ret.val = "running"
     /\ (pc = "segment" /\ pc' # "segment") =>
          /\ loc'.passes = loc.passes + 1
          /\ loc'.stack = <<>>
          /\ self'.seed = SeedAt(loc'.passes)
     /\ (pc = "assign" /\ pc' = "idle") =>
          /\ self'.seed = SeedAt(loc.passes)
          /\ ret'.val = "Ok"]_vars

\* the second pass of a build from two digests has peeled both, after the
\* first pass failed and a new seed was drawn
ReseedProtocolWitness ==
  /\ pc = "assign"
  /\ built_from = <<K42, KBig>>
  /\ loc.passes = 2
  /\ Len(loc.stack) = 2
  /\ self.seed = SeedAt(2)
  /\ self.seed # SeedAt(1)

\* the u32 v is below the number n
Below(v, n) == IsSmall(v) /\ ToInt(v) < n

\* the three reduced values of the master hash are below block_length
HashInRange(hash, bl) ==
  /\ Below(geth0(hash, bl), ToInt(bl))
  /\ Below(geth1(hash, bl), ToInt(bl))
  /\ Below(geth2(hash, bl), ToInt(bl))

\* C14: during build_keys block_length is at least 1 and the accumulator
\* arrays have block_length slots; reduce(v, block_length) is below
\* block_length for the largest 32-bit v, for the three values of every key
\* and of every queued or stacked hash; every queued index is below
\* block_length, every index on the stack and every fingerprint index of a
\* stacked hash is below 3 * block_length, the number of fingerprints; and
\* 3 * block_length is far below 2^32, so no index sum overflows
IndexRanges ==
  (origin = "built" /\ pc \notin {"idle", "panic"}) =>
    LET bl == ToInt(self.block_length)
    IN  /\ IsSmall(self.block_length)
        /\ bl >= 1
        /\ 3 * bl < 16777216
        /\ Len(self.finger_prints) = 3 * bl
        /\ Len(loc.sets0) = bl /\ Len(loc.sets1) = bl /\ Len(loc.sets2) = bl
        /\ Below(reduce(<<255, 255, 255, 255>>, self.block_length), bl)
        /\ \A i \in 1..Len(loc.keys) :
             HashInRange(mixsplit(loc.keys[i], self.seed), self.block_length)
        /\ \A e \in Range(loc.q0) \cup Range(loc.q1) \cup Range(loc.q2) :
             /\ e.index \in 0..(bl - 1)
             /\ HashInRange(e.hash, self.block_length)
        /\ \A e \in Range(loc.stack) :
             /\ e.index \in 0..(3 * bl - 1)
             /\ HashInRange(e.hash, self.block_length)
             /\ Slots3(e.hash, self.block_length) \subseteq 0..(3 * bl - 1)

\* a pass over three digests has stacked an entry of the third segment
\* while items are still queued
IndexRangesWitness ==
  /\ pc \in {"drain0", "drain1", "drain2"}
  /\ Len(built_from) = 3
  /\ loc.q0 \o loc.q1 \o loc.q2 # <<>>
  /\ \E e \in Range(loc.stack) : e.index >= 2 * ToInt(self.block_length)

\* the elements of the sequence q are pairwise different
Distinct(q) == \A i, j \in 1..Len(q) : i # j => q[i] # q[j]

\* the Hashes of the keys ks under the seed and block length of f
KeyHashes(f, ks) ==
  Tuple([i \in 1..Len(ks) |-> geth0h1h2(ks[i], f.seed, f.block_length)])

\* the slot of the Hashes hs in segment seg (0, 1 or 2)
SegIndex(hs, seg) ==
  ToInt(CASE seg = 0 -> hs.h0 [] seg = 1 -> hs.h1 [] OTHER -> hs.h2)

\* the keys (by position) whose master hash is not on the stack
Unpeeled(hs, stack) ==
  {i \in 1..Len(hs) : \A e \in Range(stack) : e.hash # hs[i].h}

\* every slot of segment seg counts the unpeeled keys that map to it, and
\* one more if the slot itself is on the stack
CountsExact(sets, seg, hs, stack, bl) ==
  \A j \in 0..(bl - 1) :
    sets[j + 1].count =
      Cardinality({i \in Unpeeled(hs, stack) : SegIndex(hs[i], seg) = j})
        + Cardinality({e \in Range(stack) : e.index = j + seg * bl})

\* the indexes queued in q, as composite indexes of segment seg
Queued(q, seg, bl) == {e.index + seg * bl : e \in Range(q)}

\* inside a pass over pairwise different digests: the stack has at most n
\* entries, with pairwise different hashes and indexes, each the master
\* hash of an input key; no slot is queued twice or queued while on the
\* stack; the counts are exact; and the stack has n entries exactly when
\* every key is on it
PassState(f, l) ==
  LET bl == ToInt(f.block_length)
      hs == KeyHashes(f, l.keys)
  IN  /\ Len(l.stack) <= l.size
      /\ Distinct(l.stack)
      /\ \A i, j \in 1..Len(l.stack) :
           i # j => /\ l.stack[i].hash # l.stack[j].hash
                    /\ l.stack[i].index # l.stack[j].index
      /\ \A e \in Range(l.stack) :
           Cardinality({i \in 1..Len(hs) : hs[i].h = e.hash}) = 1
      /\ \A i, j \in 1..Len(l.q0) : i # j => l.q0[i].index # l.q0[j].index
      /\ \A i, j \in 1..Len(l.q1) : i # j => l.q1[i].index # l.q1[j].index
      /\ \A i, j \in 1..Len(l.q2) : i # j => l.q2[i].index # l.q2[j].index
      /\ \A e \in Range(l.stack) :
           e.index \notin
             Queued(l.q0, 0, bl) \cup Queued(l.q1, 1, bl) \cup Queued(l.q2, 2, bl)
      /\ CountsExact(l.sets0, 0, hs, l.stack, bl)
      /\ CountsExact(l.sets1, 1, hs, l.stack, bl)
      /\ CountsExact(l.sets2, 2, hs, l.stack, bl)
      /\ (Len(l.stack) = l.size) <=> (Unpeeled(hs, l.stack) = {})

\* the items of the queue q2 that the queue q did not hold: each is the
\* only item of its slot, the slot's count is 1 and the slot is not on the
\* stack
FreshItems(q, q2, sets2, seg, stack2, bl) ==
  \A e \in Range(q2) \ Range(q) :
    /\ e.index \notin {d.index : d \in Range(q)}
    /\ sets2[e.index + 1].count = 1
    /\ sets2[e.index + 1].xor_mask = e.hash
    /\ \A d \in Range(stack2) : d.index # e.index + seg * bl

\* no count of the accumulator array grows from sets to sets2
NoCountGrows(sets, sets2) ==
  \A j \in 1..Len(sets) : sets2[j].count <= sets[j].count /\ sets2[j].count >= 0

\* one iteration of an inner loop, from (f, l) to l2
PassStep(f, l, l2) ==
  LET bl == ToInt(f.block_length)
      hs == KeyHashes(f, l.keys)
  IN  /\ NoCountGrows(l.sets0, l2.sets0)
      /\ NoCountGrows(l.sets1, l2.sets1)
      /\ NoCountGrows(l.sets2, l2.sets2)
      /\ FreshItems(l.q0, l2.q0, l2.sets0, 0, l2.stack, bl)
      /\ FreshItems(l.q1, l2.q1, l2.sets1, 1, l2.stack, bl)
      /\ FreshItems(l.q2, l2.q2, l2.sets2, 2, l2.stack, bl)
      /\ Len(l2.stack) <= Len(l.stack) + 1
      /\ Len(l2.stack) = Len(l.stack) + 1 =>
           LET e == Last(l2.stack)
           IN  /\ l2.stack = Append(l.stack, e)
               /\ Cardinality({i \in Unpeeled(hs, l.stack) : hs[i].h = e.hash}) = 1
               /\ \A i \in 1..Len(hs) :
                    hs[i].h = e.hash =>
                      e.index = SegIndex(hs[i], e.index \div bl) + (e.index \div bl) * bl

\* C15: within one peeling pass over pairwise different digests, every slot
\* is queued at most once, every item popped with a non-zero count carries
\* the master hash of exactly one input key that is not yet on the stack
\* and maps to the item's slot, and every key is stacked at most once; so
\* the stack never holds more than n entries, and holds n exactly when
\* every key was peeled
PeelingInvariants ==
  [][(/\ pc' \in {"drain0", "drain1", "drain2", "check"}
      /\ Distinct(loc'.keys))
       => /\ PassState(self', loc')
          /\ pc \in {"drain0", "drain1", "drain2"} => PassStep(self, loc, loc')]_vars

\* a pass over three different digests has ended with all three on the
\* stack, one of them peeled through a slot that another key maps to as
\* well: the slot was queued when its count dropped to 1
PeelingInvariantsWitness ==
  /\ pc = "check"
  /\ built_from = <<K0, K42, KBig>>
  /\ Len(loc.stack) = 3
  /\ \E e \in Range(loc.stack) :
       \E i \in 1..Len(loc.keys) :
         LET hs == geth0h1h2(loc.keys[i], self.seed, self.block_length)
             seg == e.index \div ToInt(self.block_length)
         IN  /\ hs.h # e.hash
             /\ SegIndex(hs, seg) + seg * ToInt(self.block_length) = e.index

\* the positions of ks whose digest occurs at another position too
Duplicated(ks) == {i \in 1..Len(ks) : \E j \in 1..Len(ks) : j # i /\ ks[j] = ks[i]}

\* C16: once build or build_keys has started on keys that hold one digest
\* twice, the call stays inside the retry loop: it neither reaches the
\* assignment nor returns, and reports no error; under every seed drawn the
\* three slots of a duplicated key never have count 1, and every pass ends
\* with fewer than n entries on the stack
DuplicateNeverBuilds ==
  (origin = "built" /\ ~ Distinct(built_from)) =>
    /\ pc \in {"segment", "drain0", "drain1", "drain2", "check"}
    /\ ret.val = "running"
    /\ loc.keys = built_from
    /\ pc = "check" => Len(loc.stack) < loc.size
    /\ \A i \in Duplicated(loc.keys) :
         LET hs == geth0h1h2(loc.keys[i], self.seed, self.block_length)
         IN  /\ loc.sets0[ToInt(hs.h0) + 1].count # 1
             /\ loc.sets1[ToInt(hs.h1) + 1].count # 1
             /\ loc.sets2[ToInt(hs.h2) + 1].count # 1
             /\ pc # "segment" =>
                  /\ loc.sets0[ToInt(hs.h0) + 1].count >= 2
                  /\ loc.sets1[ToInt(hs.h1) + 1].count >= 2
                  /\ loc.sets2[ToInt(hs.h2) + 1].count >= 2
                  /\ \A e \in Range(loc.stack) : e.hash # hs.h

\* the second pass over 42, 0xfffffffffffffe0f, 42 has ended under the
\* second seed with the one single digest on the stack
DuplicateNeverBuildsWitness ==
  /\ pc = "check"
  /\ built_from = <<K42, KBig, K42>>
  /\ loc.passes = 2
  /\ Len(loc.stack) = 1
  /\ self.seed = splitmix64(AddW(FromInt(1, 8), Golden))

====
